---- MODULE Spec2Model ----
(***************************************************************************)
(* Model of examples/resolve.cpp: the Crc host class with a lazy resolve   *)
(* hook.  One JSClass serves both the prototype object and the instances;  *)
(* the hooks tell them apart by the private pointer (null on the           *)
(* prototype).  The state is the set of objects of the class, their        *)
(* private pointers, the Crc structs on the C++ heap and the own           *)
(* properties the resolve hook has defined.                                *)
(*                                                                         *)
(* The engine is the environment: it calls the constructor, the class      *)
(* hooks and the two natives.  Three facts about it are built into the     *)
(* guards: the resolve hook runs only for a key the object does not own;   *)
(* Crc::update and Crc::getChecksum can be invoked only once resolve has   *)
(* created them; a finalized object is unreachable from script.  Engine     *)
(* allocation failures (out of memory) are outside the model.              *)
(***************************************************************************)
EXTENDS Integers, Sequences, FiniteSets, TLC

\* Number of `new Crc()` calls a run may make.
MaxInstances == 2
\* Total number of bytes a run may feed to update(), over all instances.
MaxBytes == 4

\* The null pointer (JSObject*, Crc*); addresses and object ids start at 1.
NULL == 0
\* Byte values the script puts into its Uint8Arrays.
Bytes == {1, 2}

VARIABLES
  pc,         \* "start" | "running" | "shutdown": position in main()/Run()
  objs,       \* objects of class Crc::klass created so far (1, 2, ...)
  prototype,  \* the object JS_InitClass returned, NULL before DefinePrototype
  priv,       \* objs -> private pointer: a heap address or NULL
  heap,       \* address of each allocated Crc struct -> its m_crc
  released,   \* address ever allocated -> number of times `delete` ran on it
  members,    \* objs -> own properties defined on the object
  defines,    \* objs -> sequence of keys JS_Define*ById was called with
  fed,        \* objs -> bytes update() folded into its Crc struct, in order
  updates,    \* objs -> number of update() calls that folded bytes into it
  finalized,  \* objs on which the finalize hook has run
  last        \* the call that has just run and its outcome ("none": idle)

vars == <<pc, objs, prototype, priv, heap, released, members, defines, fed,
          updates, finalized, last>>

(***************************************************************************)
(* 32-bit words are sets of bit positions (bit i set <=> i in the set), so *)
(* that CRC-32 values above 2^31 stay representable.                       *)
(***************************************************************************)
Word == SUBSET (0..31)
Zero == {}
AllOnes == 0..31
Xor(a, b) == (a \ b) \cup (b \ a)
ShiftRight1(a) == {i - 1 : i \in a \ {0}}
ByteBits(b) == {i \in 0..7 : (b \div (2 ^ i)) % 2 = 1}
\* 0xEDB88320, the reflected CRC-32 polynomial zlib uses.
Poly == {31, 30, 29, 27, 26, 24, 23, 21, 20, 19, 15, 9, 8, 5}

\* One bit of the shift register: c = (c >> 1) ^ (c & 1 ? Poly : 0).
RECURSIVE CrcBits(_, _)
CrcBits(c, n) ==
  IF n = 0 THEN c
  ELSE CrcBits(IF 0 \in c THEN Xor(ShiftRight1(c), Poly) ELSE ShiftRight1(c),
               n - 1)

\* zlib's crc_table: the register after eight shifts, for each low byte
\* (@@ <<>> stores the table as an explicit function, computed once).
CrcTable == [low \in SUBSET (0..7) |-> CrcBits(low, 8)] @@ <<>>
ShiftRight8(a) == {i - 8 : i \in a \ (0..7)}

\* c = crc_table[(c ^ *buf++) & 0xff] ^ (c >> 8), len times.
RECURSIVE CrcBytes(_, _, _)
CrcBytes(c, buf, len) ==
  IF len = 0 THEN c
  ELSE CrcBytes(Xor(CrcTable[Xor(c, ByteBits(Head(buf))) \cap (0..7)],
                    ShiftRight8(c)),
                Tail(buf), len - 1)

\* A `const uint8_t*`: null, or pointing at bytes.
NullData == [null |-> TRUE, bytes |-> <<>>]
Data(bytes) == [null |-> FALSE, bytes |-> bytes]

\* zlib::crc32(crc, buf, len): a null buffer yields the initial value.
crc32(crc, buf, len) ==
  IF buf.null THEN Zero
  ELSE Xor(CrcBytes(Xor(crc, AllOnes), buf.bytes, len), AllOnes)

\* uint32_t(m_crc): the low 32 bits of the unsigned long.
uint32(w) == w \cap (0..31)


(***************************************************************************)
(* Script values and property keys.                                        *)
(***************************************************************************)
\* size_t as two limbs, hi * 2^32 + lo.
SizeT(hi, lo) == [hi |-> hi, lo |-> lo]

Undefined == [type |-> "undefined", class |-> "-", data |-> <<>>,
              len |-> SizeT(0, 0)]
Number == [type |-> "number", class |-> "-", data |-> <<>>,
           len |-> SizeT(0, 0)]
Array(d) == [type |-> "object", class |-> "Array", data |-> d,
             len |-> SizeT(0, Len(d))]
Uint8Array(d) == [type |-> "object", class |-> "Uint8Array", data |-> d,
                  len |-> SizeT(0, Len(d))]
\* A Uint8Array whose length does not fit `unsigned` (size_t is wider on
\* LP64); its bytes are never read.
HugeUint8Array == [type |-> "object", class |-> "Uint8Array", data |-> <<>>,
                   len |-> SizeT(1, 0)]

\* The byte arrays script passes: empty, one byte, two bytes.
Chunks == {<<>>} \cup {<<x>> : x \in Bytes} \cup {<<1, 2>>}

ArgValues == {Undefined, Number, Array(<<1>>), HugeUint8Array}
               \cup {Uint8Array(d) : d \in Chunks}
\* Argument lists of 0, 1 and 2 values.
ArgLists == {<<>>} \cup {<<v>> : v \in ArgValues}
              \cup {<<Uint8Array(<<1>>), Undefined>>,
                    <<Undefined, Uint8Array(<<1>>)>>}

StringId(s) == [kind |-> "string", str |-> s]
SymbolId(s) == [kind |-> "symbol", str |-> s]
NoId == [kind |-> "-", str |-> "-"]
IntId(s) == [kind |-> "int", str |-> s]
Ids == {StringId("update"), StringId("checksum"), StringId("toString"),
        SymbolId("update"), IntId("0")}

JSID_IS_STRING(id) == id.kind = "string"
JS_FlatStringEqualsAscii(id, ascii) == id.str = ascii
isObject(v) == v.type = "object"
JS_IsUint8Array(v) == v.class = "Uint8Array"
JS_GetTypedArrayLength(v) == v.len
JS_GetUint8ArrayData(v) == Data(v.data)
\* len > std::numeric_limits<unsigned>::max()
ExceedsUnsignedMax(len) == len.hi > 0
\* unsigned(len)
unsigned(len) == len.lo

\* Error kinds, by the place that reports them.
NoError == "none"
ConstructorMisuseError == "ConstructorMisuseError"
PrototypeUsageError == "PrototypeUsageError"
ArgumentTypeError == "ArgumentTypeError"
CapacityError == "CapacityError"

(***************************************************************************)
(* The class: each C++ function is an operator computing its outcome from  *)
(* the current state; the actions below apply the outcomes.                *)
(***************************************************************************)
\* Crc::Crc(): m_crc(zlib::crc32(0L, nullptr, 0))
CrcCtor == crc32(Zero, NullData, 0)

getPriv(obj) == priv[obj]

isPrototype(obj) == getPriv(obj) = NULL

checkIsInstance(obj) ==
  IF isPrototype(obj) THEN [ok |-> FALSE, err |-> PrototypeUsageError]
  ELSE [ok |-> TRUE, err |-> NoError]

\* updateImpl() that restarts the checksum on every call:
\* crc32(0L, data, len) instead of crc32(m_crc, data, len).
updateImpl_Restart(this, args) ==
  IF Len(args) < 1
    THEN [ok |-> FALSE, err |-> ArgumentTypeError, m_crc |-> heap[this]]
  ELSE IF ~isObject(args[1]) \/ ~JS_IsUint8Array(args[1])
    THEN [ok |-> FALSE, err |-> ArgumentTypeError, m_crc |-> heap[this]]
  ELSE LET buffer == args[1]
           len == JS_GetTypedArrayLength(buffer)
       IN  IF ExceedsUnsignedMax(len)
             THEN [ok |-> FALSE, err |-> CapacityError, m_crc |-> heap[this]]
           ELSE LET data == JS_GetUint8ArrayData(buffer)
                IN  [ok |-> TRUE, err |-> NoError,
                     m_crc |-> crc32(Zero, data, unsigned(len))]

\* updateImpl() that only checks args[0].isObject(), not JS_IsUint8Array.
updateImpl_AnyObject(this, args) ==
  IF Len(args) < 1
    THEN [ok |-> FALSE, err |-> ArgumentTypeError, m_crc |-> heap[this]]
  ELSE IF ~isObject(args[1])
    THEN [ok |-> FALSE, err |-> ArgumentTypeError, m_crc |-> heap[this]]
  ELSE LET buffer == args[1]
           len == JS_GetTypedArrayLength(buffer)
       IN  IF ExceedsUnsignedMax(len)
             THEN [ok |-> FALSE, err |-> CapacityError, m_crc |-> heap[this]]
           ELSE LET data == JS_GetUint8ArrayData(buffer)
                IN  [ok |-> TRUE, err |-> NoError,
                     m_crc |-> crc32(heap[this], data, unsigned(len))]

\* this->updateImpl(cx, args); `this` is the address of the Crc struct.
updateImpl(this, args) ==
  IF Len(args) < 1
    THEN [ok |-> FALSE, err |-> ArgumentTypeError, m_crc |-> heap[this]]
  ELSE IF ~isObject(args[1]) \/ ~JS_IsUint8Array(args[1])
    THEN [ok |-> FALSE, err |-> ArgumentTypeError, m_crc |-> heap[this]]
  ELSE LET buffer == args[1]
           len == JS_GetTypedArrayLength(buffer)
       IN  IF ExceedsUnsignedMax(len)
             THEN [ok |-> FALSE, err |-> CapacityError, m_crc |-> heap[this]]
           ELSE LET data == JS_GetUint8ArrayData(buffer)
                IN  [ok |-> TRUE, err |-> NoError,
                     m_crc |-> crc32(heap[this], data, unsigned(len))]

getChecksumImpl(this) ==
  [ok |-> TRUE, err |-> NoError, rval |-> uint32(heap[this])]

\* constructor() without the isConstructing() test.
constructor_NoConstructingCheck(isConstructing) ==
  [ok |-> TRUE, err |-> NoError, newObj |-> Cardinality(objs) + 1,
   priv |-> Cardinality(DOMAIN released) + 1, m_crc |-> CrcCtor]

\* constructor() that attaches one static Crc to every instance.
constructor_SharedState(isConstructing) ==
  IF ~isConstructing
    THEN [ok |-> FALSE, err |-> ConstructorMisuseError, newObj |-> NULL,
          priv |-> NULL, m_crc |-> Zero]
  ELSE [ok |-> TRUE, err |-> NoError, newObj |-> Cardinality(objs) + 1,
        priv |-> 1,
        m_crc |-> IF 1 \in DOMAIN heap THEN heap[1] ELSE CrcCtor]

\* constructor() without JS_SetPrivate(newObj, priv).
constructor_NoSetPrivate(isConstructing) ==
  IF ~isConstructing
    THEN [ok |-> FALSE, err |-> ConstructorMisuseError, newObj |-> NULL,
          priv |-> NULL, m_crc |-> Zero]
  ELSE [ok |-> TRUE, err |-> NoError, newObj |-> Cardinality(objs) + 1,
        priv |-> NULL, m_crc |-> CrcCtor]

\* The outcome names the fresh object and the address `new Crc()` returned.
constructor(isConstructing) ==
  IF ~isConstructing
    THEN [ok |-> FALSE, err |-> ConstructorMisuseError, newObj |-> NULL,
          priv |-> NULL, m_crc |-> Zero]
  ELSE [ok |-> TRUE, err |-> NoError,
        newObj |-> Cardinality(objs) + 1,
        priv |-> Cardinality(DOMAIN released) + 1,
        m_crc |-> CrcCtor]

\* update() without the checkIsInstance guard: on the prototype the null
\* private pointer is dereferenced.
update_NoGuard(thisObj, args) ==
  IF getPriv(thisObj) = NULL
    THEN [ok |-> FALSE, err |-> "SIGSEGV", touched |-> NULL, m_crc |-> Zero]
  ELSE LET r == updateImpl(getPriv(thisObj), args)
       IN  [ok |-> r.ok, err |-> r.err, touched |-> getPriv(thisObj),
            m_crc |-> r.m_crc]

\* `touched` is the address whose m_crc the call may have written.
update(thisObj, args) ==
  LET chk == checkIsInstance(thisObj)
  IN  IF ~chk.ok
        THEN [ok |-> FALSE, err |-> chk.err, touched |-> NULL, m_crc |-> Zero]
      ELSE LET r == updateImpl(getPriv(thisObj), args)
           IN  [ok |-> r.ok, err |-> r.err, touched |-> getPriv(thisObj),
                m_crc |-> r.m_crc]

getChecksum(thisObj) ==
  LET chk == checkIsInstance(thisObj)
  IN  IF ~chk.ok THEN [ok |-> FALSE, err |-> chk.err, rval |-> Zero]
      ELSE getChecksumImpl(getPriv(thisObj))

\* newEnumerate() that leaves out the names resolve has already defined.
newEnumerate_SkipDefined(obj, properties) ==
  IF ~isPrototype(obj) THEN [ok |-> TRUE, properties |-> properties]
  ELSE LET p1 == IF \E m \in members[obj] : m.id = StringId("update")
                   THEN properties
                 ELSE Append(properties, StringId("update"))
       IN  [ok |-> TRUE,
            properties |->
              IF \E m \in members[obj] : m.id = StringId("checksum") THEN p1
              ELSE Append(p1, StringId("checksum"))]

newEnumerate(obj, properties) ==
  IF ~isPrototype(obj) THEN [ok |-> TRUE, properties |-> properties]
  ELSE [ok |-> TRUE,
        properties |-> Append(Append(properties, StringId("update")),
                              StringId("checksum"))]

\* Own properties, as JS_DefineFunctionById and JS_DefinePropertyById
\* create them.
Function(id, native, nargs) ==
  [id |-> id, kind |-> "function", call |-> native, nargs |-> nargs,
   getter |-> "-", setter |-> "-"]
Accessor(id, getter) ==
  [id |-> id, kind |-> "accessor", call |-> "-", nargs |-> 0,
   getter |-> getter, setter |-> "nullptr"]

\* resolve() without the isPrototype early return.
resolve_NoPrototypeCheck(obj, id) ==
  IF ~JSID_IS_STRING(id)
    THEN [ok |-> TRUE, resolved |-> FALSE, define |-> {}]
  ELSE IF JS_FlatStringEqualsAscii(id, "update")
    THEN [ok |-> TRUE, resolved |-> TRUE,
          define |-> {Function(id, "Crc::update", 1)}]
  ELSE IF JS_FlatStringEqualsAscii(id, "checksum")
    THEN [ok |-> TRUE, resolved |-> TRUE,
          define |-> {Accessor(id, "Crc::getChecksum")}]
  ELSE [ok |-> TRUE, resolved |-> FALSE, define |-> {}]

\* resolve() whose "checksum" branch defines the getter under the key
\* "update" (a copy-and-paste slip).
resolve_WrongKey(obj, id) ==
  IF ~isPrototype(obj) THEN [ok |-> TRUE, resolved |-> FALSE, define |-> {}]
  ELSE IF ~JSID_IS_STRING(id)
    THEN [ok |-> TRUE, resolved |-> FALSE, define |-> {}]
  ELSE IF JS_FlatStringEqualsAscii(id, "update")
    THEN [ok |-> TRUE, resolved |-> TRUE,
          define |-> {Function(id, "Crc::update", 1)}]
  ELSE IF JS_FlatStringEqualsAscii(id, "checksum")
    THEN [ok |-> TRUE, resolved |-> TRUE,
          define |-> {Accessor(StringId("update"), "Crc::getChecksum")}]
  ELSE [ok |-> TRUE, resolved |-> FALSE, define |-> {}]

\* `define` is the set of properties the call defines on obj.
resolve(obj, id) ==
  IF ~isPrototype(obj) THEN [ok |-> TRUE, resolved |-> FALSE, define |-> {}]
  ELSE IF ~JSID_IS_STRING(id)
    THEN [ok |-> TRUE, resolved |-> FALSE, define |-> {}]
  ELSE IF JS_FlatStringEqualsAscii(id, "update")
    THEN [ok |-> TRUE, resolved |-> TRUE,
          define |-> {Function(id, "Crc::update", 1)}]
  ELSE IF JS_FlatStringEqualsAscii(id, "checksum")
    THEN [ok |-> TRUE, resolved |-> TRUE,
          define |-> {Accessor(id, "Crc::getChecksum")}]
  ELSE [ok |-> TRUE, resolved |-> FALSE, define |-> {}]

mayResolve(id) ==
  IF ~JSID_IS_STRING(id) THEN FALSE
  ELSE JS_FlatStringEqualsAscii(id, "update")
         \/ JS_FlatStringEqualsAscii(id, "checksum")

\* finalize() without JS_SetPrivate(obj, nullptr).
finalize_NoReset(obj) ==
  LET p == getPriv(obj) IN [del |-> p, priv |-> p]

\* `del` is the address handed to `delete` (NULL: none), `priv` the
\* object's private pointer afterwards.
finalize(obj) ==
  LET p == getPriv(obj)
  IN  IF p # NULL THEN [del |-> p, priv |-> NULL]
      ELSE [del |-> NULL, priv |-> p]

\* The well-known check value of the test program's input, 0x470B99F4:
\* crc32 above is zlib's function, not a stand-in.
TestProgramBytes == <<1, 2, 3, 4, 5>>

\* The outcome names the prototype object JS_InitClass created and the
\* private pointer JS_SetPrivate gave it.
DefinePrototypeImpl ==
  [ok |-> TRUE, proto |-> Cardinality(objs) + 1, priv |-> NULL]

(***************************************************************************)
(* Bookkeeping shared by the actions.                                      *)
(***************************************************************************)
Call(op) ==
  [op |-> op, self |-> NULL, id |-> NoId, argc |-> 0, arg0 |-> "-",
   ok |-> TRUE, err |-> NoError, rval |-> Zero, resolved |-> FALSE,
   names |-> <<>>, constructing |-> FALSE, attached |-> FALSE, folded |-> 0]

\* What the first argument is, without its bytes.
ArgShape(args) ==
  IF Len(args) = 0 THEN "-"
  ELSE IF args[1].type # "object" THEN args[1].type
  ELSE IF ExceedsUnsignedMax(args[1].len) THEN "Huge" \o args[1].class
  ELSE args[1].class

\* The bytes of the first argument, when it is a Uint8Array.
ArgBytes(args) ==
  IF Len(args) >= 1 /\ args[1].class = "Uint8Array" THEN args[1].data
  ELSE <<>>

RECURSIVE SumLen(_, _)
SumLen(f, S) ==
  IF S = {} THEN 0
  ELSE LET x == CHOOSE x \in S : TRUE IN Len(f[x]) + SumLen(f, S \ {x})

TotalFed == SumLen(fed, objs)
Instances == objs \ {prototype}
\* Objects script can still reach.
Live == objs \ finalized
Owns(obj, name) == \E m \in members[obj] : m.id = StringId(name)
\* obj has an InstanceState attached.
Attached(obj) == priv[obj] # NULL

Init ==
  /\ pc = "start"
  /\ objs = {}
  /\ prototype = NULL
  /\ priv = <<>>
  /\ heap = <<>>
  /\ released = <<>>
  /\ members = <<>>
  /\ defines = <<>>
  /\ fed = <<>>
  /\ updates = <<>>
  /\ finalized = {}
  /\ last = Call("none")

\* No call is in progress.
Idle == last.op = "none"

\* Run(): Crc::DefinePrototype(cx), once, before any script runs.
DefinePrototype ==
  /\ Idle
  /\ pc = "start"
  /\ LET r == DefinePrototypeImpl
     IN  /\ objs' = objs \cup {r.proto}
         /\ prototype' = r.proto
         /\ priv' = (r.proto :> r.priv) @@ priv
         /\ members' = (r.proto :> {}) @@ members
         /\ defines' = (r.proto :> <<>>) @@ defines
         /\ fed' = (r.proto :> <<>>) @@ fed
         /\ updates' = (r.proto :> 0) @@ updates
         /\ last' = [Call("DefinePrototype") EXCEPT !.self = r.proto]
  /\ pc' = "running"
  /\ UNCHANGED <<heap, released, finalized>>

\* Script: `new Crc()` (isConstructing) or `Crc()`.
Construct(isConstructing) ==
  /\ Idle
  /\ pc = "running"
  /\ isConstructing => Cardinality(Instances) < MaxInstances
  /\ LET r == constructor(isConstructing)
     IN  /\ last' = [Call("constructor") EXCEPT !.ok = r.ok, !.err = r.err,
                        !.self = r.newObj, !.constructing = isConstructing]
         /\ IF r.ok
              THEN /\ objs' = objs \cup {r.newObj}
                   /\ priv' = (r.newObj :> r.priv) @@ priv
                   /\ heap' = (r.priv :> r.m_crc) @@ heap
                   /\ released' = released @@ (r.priv :> 0)
                   /\ members' = (r.newObj :> {}) @@ members
                   /\ defines' = (r.newObj :> <<>>) @@ defines
                   /\ fed' = (r.newObj :> <<>>) @@ fed
                   /\ updates' = (r.newObj :> 0) @@ updates
              ELSE UNCHANGED <<objs, priv, heap, released, members, defines,
                               fed, updates>>
  /\ UNCHANGED <<pc, prototype, finalized>>

\* The engine misses `id` on obj and calls the class's resolve hook.
Resolve(obj, id) ==
  /\ Idle
  /\ pc = "running"
  /\ obj \in Live
  /\ \A m \in members[obj] : m.id # id
  /\ LET r == resolve(obj, id)
     IN  /\ members' = [members EXCEPT ![obj] =
                          {m \in @ : \A d \in r.define : d.id # m.id}
                            \cup r.define]
         /\ defines' = [defines EXCEPT ![obj] =
                          IF r.define = {} THEN @
                          ELSE Append(@, (CHOOSE d \in r.define : TRUE).id)]
         /\ last' = [Call("resolve") EXCEPT !.self = obj, !.id = id,
                        !.ok = r.ok, !.resolved = r.resolved,
                        !.attached = Attached(obj)]
  /\ UNCHANGED <<pc, objs, prototype, priv, heap, released, fed, updates,
                 finalized>>

\* Script: thisObj.update(...args), through the function resolve defined.
Update(thisObj, args) ==
  /\ Idle
  /\ pc = "running"
  /\ thisObj \in Live
  /\ Owns(prototype, "update")
  /\ TotalFed + Len(ArgBytes(args)) <= MaxBytes
  /\ LET r == update(thisObj, args)
     IN  /\ heap' = IF r.touched = NULL THEN heap
                    ELSE [heap EXCEPT ![r.touched] = r.m_crc]
         /\ fed' = IF r.ok THEN [fed EXCEPT ![thisObj] = @ \o ArgBytes(args)]
                   ELSE fed
         /\ updates' = IF r.ok /\ ArgBytes(args) # <<>>
                         THEN [updates EXCEPT ![thisObj] = @ + 1]
                       ELSE updates
         /\ last' = [Call("update") EXCEPT !.self = thisObj, !.ok = r.ok,
                        !.err = r.err, !.argc = Len(args),
                        !.arg0 = ArgShape(args),
                        !.attached = Attached(thisObj),
                        !.folded = IF r.ok THEN Len(ArgBytes(args)) ELSE 0]
  /\ UNCHANGED <<pc, objs, prototype, priv, released, members, defines,
                 finalized>>

\* Script: thisObj.checksum, through the getter resolve defined.
Checksum(thisObj) ==
  /\ Idle
  /\ pc = "running"
  /\ thisObj \in Live
  /\ Owns(prototype, "checksum")
  /\ LET r == getChecksum(thisObj)
     IN  last' = [Call("getChecksum") EXCEPT !.self = thisObj, !.ok = r.ok,
                    !.err = r.err, !.rval = r.rval,
                    !.attached = Attached(thisObj)]
  /\ UNCHANGED <<pc, objs, prototype, priv, heap, released, members, defines,
                 fed, updates, finalized>>

\* The engine enumerates obj and calls newEnumerate with an empty vector.
Enumerate(obj) ==
  /\ Idle
  /\ pc = "running"
  /\ obj \in Live
  /\ LET r == newEnumerate(obj, <<>>)
     IN  last' = [Call("newEnumerate") EXCEPT !.self = obj, !.ok = r.ok,
                    !.names = r.properties, !.attached = Attached(obj)]
  /\ UNCHANGED <<pc, objs, prototype, priv, heap, released, members, defines,
                 fed, updates, finalized>>

MayResolve(id) ==
  /\ Idle
  /\ pc = "running"
  /\ last' = [Call("mayResolve") EXCEPT !.id = id, !.resolved = mayResolve(id)]
  /\ UNCHANGED <<pc, objs, prototype, priv, heap, released, members, defines,
                 fed, updates, finalized>>

\* The reclaimer calls the finalize hook on an instance script has dropped.
\* The hook is total, so the model also lets it run again on an object it
\* has already finalized.
Finalize(obj) ==
  /\ Idle
  /\ pc = "running"
  /\ obj \in Instances
  /\ LET r == finalize(obj)
     IN  /\ priv' = [priv EXCEPT ![obj] = r.priv]
         /\ heap' = [p \in DOMAIN heap \ {r.del} |-> heap[p]]
         /\ released' = IF r.del = NULL THEN released
                        ELSE [released EXCEPT ![r.del] = @ + 1]
  /\ fed' = [fed EXCEPT ![obj] = <<>>]
  /\ updates' = [updates EXCEPT ![obj] = 0]
  /\ finalized' = finalized \cup {obj}
  /\ last' = [Call("finalize") EXCEPT !.self = obj,
                 !.attached = Attached(obj)]
  /\ UNCHANGED <<pc, objs, prototype, members, defines>>

\* main(): Run() has returned and JS_DestroyContext reclaims every object
\* still alive, the prototype included, calling finalize on each.
Shutdown ==
  /\ Idle
  /\ pc = "running"
  /\ pc' = "shutdown"
  /\ LET dels == {finalize(o).del : o \in Live} \ {NULL}
     IN  /\ priv' = [o \in objs |->
                      IF o \in Live THEN finalize(o).priv ELSE priv[o]]
         /\ heap' = [p \in DOMAIN heap \ dels |-> heap[p]]
         /\ released' = [p \in DOMAIN released |->
                          released[p]
                            + Cardinality({o \in Live : finalize(o).del = p})]
  /\ fed' = [o \in objs |-> <<>>]
  /\ updates' = [o \in objs |-> 0]
  /\ finalized' = objs
  /\ last' = Call("JS_DestroyContext")
  /\ UNCHANGED <<objs, prototype, members, defines>>

\* The call returns: its outcome has been handed to the caller, which goes
\* on.  Every hook and native runs to completion before the next starts.
Return ==
  /\ ~Idle
  /\ last' = Call("none")
  /\ UNCHANGED <<pc, objs, prototype, priv, heap, released, members, defines,
                 fed, updates, finalized>>

Next ==
  \/ DefinePrototype
  \/ \E c \in BOOLEAN : Construct(c)
  \/ \E o \in objs, id \in Ids : Resolve(o, id)
  \/ \E o \in objs, args \in ArgLists : Update(o, args)
  \/ \E o \in objs : Checksum(o)
  \/ \E o \in objs : Enumerate(o)
  \/ \E id \in Ids : MayResolve(id)
  \/ \E o \in objs : Finalize(o)
  \/ Shutdown
  \/ Return

Spec == Init /\ [][Next]_vars

(***************************************************************************)
(* Properties.                                                             *)
(***************************************************************************)
HasState(o) == priv[o] # NULL /\ priv[o] \in DOMAIN heap
Acc(o) == heap[priv[o]]

\* C1: update() and the checksum getter called with this = the prototype
\* always fail with PrototypeUsageError, and the call leaves every
\* instance's accumulator (and its attachment) as it was.
C1_PrototypeCallsFail ==
  [][(last'.op \in {"update", "getChecksum"} /\ last'.self = prototype)
       => /\ ~last'.ok
          /\ last'.err = PrototypeUsageError
          /\ heap' = heap
          /\ priv' = priv]_vars

\* An update() with a valid byte array was tried on the prototype while an
\* instance with a non-trivial accumulator existed.
C1_Witness ==
  /\ last.op = "update"
  /\ last.self = prototype
  /\ last.arg0 = "Uint8Array"
  /\ last.err = PrototypeUsageError
  /\ \E o \in Instances : HasState(o) /\ fed[o] # <<>>

\* C2 as stated: once the prototype is defined, exactly one object of the
\* class has no InstanceState attached (the prototype) and every other
\* object carries its own, unshared InstanceState.
C2_AsStated ==
  pc # "start" =>
    /\ {o \in objs : priv[o] = NULL} = {prototype}
    /\ \A o \in Instances :
         HasState(o) /\ \A o2 \in objs \ {o} : priv[o2] # priv[o]

\* C2 amended: once the prototype is defined it has no InstanceState; every
\* instance that has not been finalized carries its own InstanceState,
\* shared with no other object; a finalized object has none.  So the
\* objects without state are the prototype and the finalized instances.
C2_StateOwnership ==
  pc # "start" =>
    /\ prototype \in objs
    /\ priv[prototype] = NULL
    /\ \A o \in Instances :
         IF o \in finalized THEN priv[o] = NULL
         ELSE HasState(o) /\ \A o2 \in objs \ {o} : priv[o2] # priv[o]

\* Two live instances with their own states next to a finalized one.
C2_Witness ==
  /\ pc = "running"
  /\ \E a, b \in Instances :
       /\ a \in finalized /\ priv[a] = NULL
       /\ b \notin finalized /\ HasState(b) /\ fed[b] # <<>>

\* C3: every InstanceState is released at most once, however often
\* finalize runs; finalize on an object with a state attached releases
\* that state and detaches it; finalize on an object with no state (the
\* prototype, an instance already finalized) changes nothing and raises
\* no error; after the context is destroyed every state has been released
\* exactly once.
C3_FinalizeOnce ==
  [][/\ \A p \in DOMAIN released' : released'[p] <= 1
     /\ (last'.op = "finalize" /\ last'.attached)
          => /\ released'[priv[last'.self]] = released[priv[last'.self]] + 1
             /\ priv'[last'.self] = NULL
             /\ \A p \in DOMAIN released \ {priv[last'.self]} :
                  released'[p] = released[p]
     /\ (last'.op = "finalize" /\ ~last'.attached)
          => /\ last'.ok /\ last'.err = NoError
             /\ UNCHANGED <<pc, objs, prototype, priv, heap, released,
                            members, defines, fed, updates>>
     /\ last'.op = "JS_DestroyContext"
          => /\ priv'[prototype] = NULL
             /\ members' = members
             /\ \A p \in DOMAIN released' : released'[p] = 1]_vars

\* finalize ran again on an instance it had already finalized, and the
\* state released the first time is still counted once.
C3_Witness ==
  /\ last.op = "finalize"
  /\ ~last.attached
  /\ last.self \in Instances
  /\ \E p \in DOMAIN released : released[p] = 1

Lazy == {StringId("update"), StringId("checksum")}
OwnsId(mem, obj, id) == \E m \in mem[obj] : m.id = id
Count(seq, x) == Cardinality({i \in 1..Len(seq) : seq[i] = x})

\* C4: the resolve hook reports resolved = true, and defines a member
\* under the key asked for, exactly when the object is the prototype and
\* the key is the string "update" (a function of arity 1) or the string
\* "checksum" (a getter with no setter); otherwise it reports false and
\* defines nothing.  No instance ever owns a member.
C4_ResolveOnlyOnPrototype ==
  [][/\ last'.op = "resolve" =>
          LET o == last'.self
              k == last'.id
          IN  IF o = prototype /\ k \in Lazy
                THEN /\ last'.ok /\ last'.resolved
                     /\ \E m \in members'[o] :
                          /\ m.id = k
                          /\ members'[o] = members[o] \cup {m}
                          /\ k = StringId("update")
                               => m.kind = "function" /\ m.nargs = 1
                                    /\ m.call = "Crc::update"
                          /\ k = StringId("checksum")
                               => m.kind = "accessor" /\ m.setter = "nullptr"
                                    /\ m.getter = "Crc::getChecksum"
                     /\ \A x \in objs \ {o} : members'[x] = members[x]
              ELSE /\ last'.ok /\ ~last'.resolved
                   /\ members' = members
                   /\ defines' = defines
     /\ \A x \in objs' \ {prototype'} :
          members'[x] = {} /\ defines'[x] = <<>>]_vars

\* The hook has defined "checksum" on the prototype while an instance with
\* a state exists and owns nothing.
C4_Witness ==
  /\ last.op = "resolve"
  /\ last.self = prototype
  /\ last.id = StringId("checksum")
  /\ last.resolved
  /\ OwnsId(members, prototype, StringId("checksum"))
  /\ \E o \in Instances : HasState(o)

\* C5: a member resolve has defined on the prototype stays a member of the
\* prototype, unchanged, in every later state; while it is there no call
\* defines it again, so each of "update" and "checksum" is defined at most
\* once on the prototype; update() and the checksum getter run through
\* the defined members without any further definition.
C5_ResolveOnce ==
  [][pc # "start" =>
       /\ members[prototype] \subseteq members'[prototype]
       /\ \A k \in Lazy :
            /\ Count(defines'[prototype], k) <= 1
            /\ OwnsId(members, prototype, k)
                 => Count(defines'[prototype], k) = Count(defines[prototype], k)
       /\ last'.op \in {"update", "getChecksum"}
            => members' = members /\ defines' = defines]_vars

\* Both members are defined, each by one definition, and an instance has
\* just been updated through the defined function.
C5_Witness ==
  /\ pc = "running"
  /\ defines[prototype] \in {<<StringId("update"), StringId("checksum")>>,
                              <<StringId("checksum"), StringId("update")>>}
  /\ OwnsId(members, prototype, StringId("update"))
  /\ OwnsId(members, prototype, StringId("checksum"))
  /\ last.op = "update" /\ last.ok /\ last.folded > 0

\* What a fresh instance holds after one update() with all of bytes.
OneShot(bytes) == crc32(CrcCtor, Data(bytes), Len(bytes))

\* C6: whenever a constructor or update() call has returned, the
\* accumulator of every instance is the checksum one update() of a fresh
\* instance computes for the concatenation of all the byte arrays the
\* instance was updated with, however they were split into calls; so
\* instances fed the same bytes hold the same value, and the getter
\* returns it.
C6_IncrementalEqualsOneShot ==
  /\ last.op \in {"none", "constructor", "update"} =>
       /\ \A o \in Instances : HasState(o) => Acc(o) = OneShot(fed[o])
       /\ \A a, b \in Instances :
            (HasState(a) /\ HasState(b) /\ fed[a] = fed[b]) => Acc(a) = Acc(b)
  /\ (last.op = "getChecksum" /\ last.ok /\ HasState(last.self))
       => last.rval = OneShot(fed[last.self])

\* 0x470B99F4 as a set of bit positions.
TestProgramCrc ==
  {30, 26, 25, 24, 19, 17, 16, 15, 12, 11, 8, 7, 6, 5, 4, 2}

\* Instance a was updated with <<1>> and then with <<2>>, instance b once
\* with <<1, 2>>, and both hold the same checksum, which is not that of
\* <<2>>; the model's crc32 gives the test program's input its CRC-32
\* check value.
C6_Witness ==
  /\ last.op = "update" /\ last.ok /\ last.folded = 1
  /\ fed[last.self] = <<1, 2>>
  /\ updates[last.self] = 2
  /\ \E b \in Instances \ {last.self} :
       /\ HasState(b)
       /\ fed[b] = <<1, 2>>
       /\ updates[b] = 1
       /\ Acc(b) = Acc(last.self)
  /\ Acc(last.self) # OneShot(<<2>>)
  /\ OneShot(TestProgramBytes) = TestProgramCrc

ByteArrayShapes == {"Uint8Array", "HugeUint8Array"}

\* C7 as stated: update() on an instance succeeds only when called with
\* exactly one argument, an in-range byte array; any other number of
\* arguments fails with ArgumentTypeError.
C7_AsStated ==
  (last.op = "update" /\ last.attached) =>
    /\ last.ok <=> (last.argc = 1 /\ last.arg0 = "Uint8Array")
    /\ last.argc # 1 => last.err = ArgumentTypeError

\* C7 amended: update() on an instance looks at its first argument only.
\* With no argument, or a first argument that is not a byte array, it
\* fails with ArgumentTypeError; with a byte array longer than the
\* unsigned maximum it fails with CapacityError; with one or more
\* arguments whose first is an in-range byte array it succeeds and folds
\* that array's bytes into the accumulator.  A failed call leaves the
\* accumulator as it was.
C7_UpdateArguments ==
  [][(last'.op = "update" /\ last'.attached) =>
       LET o == last'.self
       IN  /\ (last'.argc = 0 \/ last'.arg0 \notin ByteArrayShapes)
                => ~last'.ok /\ last'.err = ArgumentTypeError
           /\ (last'.argc >= 1 /\ last'.arg0 = "HugeUint8Array")
                => ~last'.ok /\ last'.err = CapacityError
           /\ (last'.argc >= 1 /\ last'.arg0 = "Uint8Array")
                => /\ last'.ok /\ last'.err = NoError
                   /\ \E d \in Chunks :
                        /\ Len(d) = last'.folded
                        /\ fed'[o] = fed[o] \o d
                        /\ heap'[priv[o]] = crc32(heap[priv[o]], Data(d), Len(d))
           /\ ~last'.ok => heap' = heap /\ fed' = fed]_vars

\* update() was called on an instance with two arguments, the first a
\* one-byte array, and folded the byte.
C7_Witness ==
  /\ last.op = "update"
  /\ last.attached
  /\ last.argc = 2
  /\ last.arg0 = "Uint8Array"
  /\ last.ok
  /\ last.folded = 1
  /\ fed[last.self] = <<1>>

\* C8: newEnumerate on the prototype reports exactly "update" and
\* "checksum", each once, whatever resolve has defined so far and however
\* often it ran before; on an instance it reports nothing; it defines no
\* member.
C8_EnumerateExactlyTwo ==
  [][last'.op = "newEnumerate" =>
       /\ last'.ok
       /\ IF last'.self = prototype
            THEN /\ Len(last'.names) = 2
                 /\ {last'.names[i] : i \in 1..2} = Lazy
          ELSE last'.names = <<>>
       /\ members' = members
       /\ defines' = defines]_vars

\* The prototype was enumerated with "update" defined and "checksum" not.
C8_Witness ==
  /\ last.op = "newEnumerate"
  /\ last.self = prototype
  /\ last.names = <<StringId("update"), StringId("checksum")>>
  /\ OwnsId(members, prototype, StringId("update"))
  /\ ~OwnsId(members, prototype, StringId("checksum"))

\* C9: a plain call of the constructor fails with ConstructorMisuseError
\* and creates no object and no InstanceState; a construction call
\* creates a new object with a newly allocated InstanceState whose
\* accumulator is 0; the getter of an instance never updated with a byte
\* returns 0.
C9_Constructor ==
  [][/\ (last'.op = "constructor" /\ ~last'.constructing)
          => /\ ~last'.ok /\ last'.err = ConstructorMisuseError
             /\ UNCHANGED <<objs, priv, heap, released>>
     /\ (last'.op = "constructor" /\ last'.constructing)
          => /\ last'.ok
             /\ last'.self \notin objs
             /\ objs' = objs \cup {last'.self}
             /\ priv'[last'.self] \notin DOMAIN released \cup {NULL}
             /\ DOMAIN heap' = DOMAIN heap \cup {priv'[last'.self]}
             /\ heap'[priv'[last'.self]] = Zero
             /\ \A o \in objs : priv'[o] = priv[o]
             /\ \A p \in DOMAIN heap : heap'[p] = heap[p]
     /\ (last'.op = "getChecksum" /\ last'.ok /\ fed[last'.self] = <<>>)
          => last'.rval = Zero]_vars

\* A plain call of the constructor has just failed, next to an instance a
\* construction call created, whose accumulator is 0.
C9_Witness ==
  /\ last.op = "constructor"
  /\ ~last.constructing
  /\ last.err = ConstructorMisuseError
  /\ \E o \in Instances : HasState(o) /\ fed[o] = <<>> /\ Acc(o) = Zero

\* C10: the accumulator of an instance changes only in a successful
\* update() whose this is that instance; the getter, resolve,
\* newEnumerate, mayResolve and a failed update() leave every accumulator
\* and every attachment as they were.
C10_InstanceIsolation ==
  [][/\ \A o \in objs :
          (HasState(o) /\ priv'[o] = priv[o] /\ priv[o] \in DOMAIN heap'
             /\ heap'[priv[o]] # heap[priv[o]])
            => last'.op = "update" /\ last'.ok /\ last'.self = o
     /\ (\/ last'.op \in {"getChecksum", "resolve", "newEnumerate",
                           "mayResolve"}
         \/ (last'.op = "update" /\ ~last'.ok))
          => heap' = heap /\ priv' = priv /\ released' = released
     /\ (last'.op = "update" /\ last'.ok)
          => /\ priv' = priv
             /\ \A p \in DOMAIN heap \ {priv[last'.self]} : heap'[p] = heap[p]]_vars

\* Instance a was just updated while another instance b holds a different,
\* non-trivial accumulator of its own.
C10_Witness ==
  /\ last.op = "update" /\ last.ok /\ last.folded > 0
  /\ \E b \in Instances \ {last.self} :
       /\ HasState(b)
       /\ fed[b] # <<>>
       /\ Acc(b) = OneShot(fed[b])
       /\ Acc(b) # Acc(last.self)

====
